---- MODULE Spec2Model ----
(***************************************************************************)
(* A model of changelog/__init__.py: one run of generate_changelog against *)
(* a remote git forge.  The remote (tags, references, git objects, branch  *)
(* head) is fixed at the start of a run; every request is answered by the  *)
(* remote with a status and a JSON body.  JSON objects are records, JSON   *)
(* arrays are sequences, Python values that may be None, str or Tag carry  *)
(* a "type" field.                                                         *)
(***************************************************************************)
EXTENDS Integers, Sequences, FiniteSets, Bags, TLC

VARIABLES
    remote,             \* the forge, as far as revealed: [objs, refs, tags, head]
    pc,                 \* position of the run in the call chain
    error,              \* the exception that ended the run, or "none"
    previous_tag_name,  \* fetch_changes parameter (reassigned at line 212)
    current_tag_name,   \* fetch_changes parameter
    caller,             \* the call site the running get_tag returns to
    name,               \* get_tag parameter
    tag_url,            \* get_tag local
    tag_json,           \* get_tag local
    previous_tag,       \* fetch_changes local
    current_commit,     \* fetch_changes local
    pr_json_list,       \* get_prs_merged_between_commits local (the 200 body)
    prs,                \* generate_changelog local
    lines,              \* generate_changelog local
    changelog,          \* the value generate_changelog returns
    log,                \* history: every request issued, in order
    tag_requests,       \* history: URLs requested by the running get_tag call
    previous_arg        \* history: previous_tag as passed to generate_changelog

vars == <<remote, pc, error, previous_tag_name, current_tag_name, caller, name,
          tag_url, tag_json, previous_tag, current_commit, pr_json_list, prs,
          lines, changelog, log, tag_requests, previous_arg>>

-----------------------------------------------------------------------------
(* Bounds of the model *)

\* git objects of the remote
MaxObjs == 3
\* nodes in one search response
MaxNodes == 3
\* requests issued in one run (caps the get_tag loop)
MaxRequests == 12

-----------------------------------------------------------------------------
(* Run parameters *)

api_url == "https://api.github.com"
base_url == "https://github.com"
owner == "OWNER"
repo == "REPO"
branch == "master"

TagNames == {"v1", "v2"}

-----------------------------------------------------------------------------
(* Python values *)

None == [type |-> "None"]
Str(s) == [type |-> "str", val |-> s]
EmptyDict == [k \in {} |-> 0]

\* @dataclass Commit
Commit(sha, datetime, message, author) ==
    [sha |-> sha, datetime |-> datetime, message |-> message, author |-> author]

\* @dataclass Tag
Tag(n, commit) == [type |-> "Tag", name |-> n, commit |-> commit]

\* @dataclass PullRequest
PullRequest(number, title, author) ==
    [number |-> number, title |-> title, author |-> author]

\* datetime.fromisoformat(datetime_str.replace("Z", "+00:00")); a date string
\* is its local part and its zone designator
parse_datetime_string(datetime_str) ==
    [local |-> datetime_str.local,
     zone  |-> IF datetime_str.zone = "Z" THEN "+00:00" ELSE datetime_str.zone]

\* datetime.isoformat()
isoformat(dt) == dt.local \o dt.zone

\* Commit.init_from_api
init_from_api(commit_json) ==
    Commit(commit_json.sha,
           parse_datetime_string(commit_json.commit.author.date),
           commit_json.commit.message,
           commit_json.author.login)

\* repr() of a dataclass field (a nested Tag is not spelled out)
Repr(x) ==
    IF x.type = "str" THEN "'" \o x.val \o "'"
    ELSE IF x.type = "Tag" THEN "Tag(...)" ELSE "None"

\* what an f-string makes of a value: a str is itself, a Tag is its dataclass
\* repr (the datetime repr is shortened to its ISO form)
Format(x) ==
    IF x.type = "str" THEN x.val
    ELSE IF x.type = "Tag"
    THEN "Tag(name=" \o Repr(x.name) \o ", commit=Commit(sha='" \o x.commit.sha
         \o "', datetime=datetime.datetime(" \o isoformat(x.commit.datetime)
         \o "), message='" \o x.commit.message
         \o "', author='" \o x.commit.author \o "'))"
    ELSE "None"

-----------------------------------------------------------------------------
(* GithubAPI URLs *)

repo_url == api_url \o "/repos/" \o owner \o "/" \o repo
commits_url == repo_url \o "/commits"
tags_url == repo_url \o "/tags"
graphql_url == api_url \o "/graphql"
get_commit_url(sha) == commits_url \o "/" \o sha
tag_ref_url(tag) == repo_url \o "/git/refs/tags/" \o Format(tag)

-----------------------------------------------------------------------------
(* The remote forge *)
(* The run learns the remote only through its answers, so the remote is    *)
(* kept as the part revealed so far: an answer to a lookup that reaches an *)
(* unrevealed part picks any value for it, and later answers agree.        *)

Objs == 1..MaxObjs

Sha(o) == "sha" \o ToString(o)

Unknown == [type |-> "unknown", target |-> 0]

\* a git object: a commit, a tree, or an annotated tag pointing at an object
\* created before it, so that the object graph is finite and acyclic
ObjChoices(o) ==
    {[type |-> "commit", target |-> 0], [type |-> "tree", target |-> 0]}
    \cup {[type |-> "tag", target |-> t] : t \in 1..(o - 1)}

Graphs == {g \in [Objs -> UNION {ObjChoices(o) : o \in Objs}] :
              \A o \in Objs : g[o] \in ObjChoices(o)}

\* refs and head: -1 not revealed, 0 absent, else the object pointed at
FreshRemote ==
    [objs |-> [o \in Objs |-> Unknown],
     refs |-> [t \in TagNames |-> -1],
     tags |-> [known |-> FALSE, list |-> <<>>],
     head |-> -1]

Agrees(g, r) == \A o \in Objs : r.objs[o] = Unknown \/ r.objs[o] = g[o]

\* the objects on the way from o to the first object that is not a tag
RECURSIVE Chain(_, _)
Chain(g, o) == {o} \cup (IF g[o].type = "tag" THEN Chain(g, g[o].target) ELSE {})

WithObjs(r, g, S) ==
    [r EXCEPT !.objs = [o \in Objs |-> IF o \in S THEN g[o] ELSE r.objs[o]]]

\* the tag listings: the existing tags, each once, in the remote's own order
TagLists(E) == {l \in [1..Cardinality(E) -> E] : \A i, j \in DOMAIN l : l[i] = l[j] => i = j}

Listed(r, t) == \E i \in DOMAIN r.tags.list : r.tags.list[i] = t

RevealTags(r) ==
    IF r.tags.known THEN {r}
    ELSE {[r EXCEPT !.tags = [known |-> TRUE, list |-> l]] :
             l \in UNION {TagLists(E) : E \in {X \in SUBSET TagNames :
                             \A t \in TagNames : /\ r.refs[t] = 0 => t \notin X
                                                 /\ r.refs[t] > 0 => t \in X}}}

RevealRef(r, t) ==
    IF r.refs[t] # -1 THEN {r}
    ELSE (IF r.tags.known /\ Listed(r, t) THEN {} ELSE {[r EXCEPT !.refs[t] = 0]})
         \cup (IF r.tags.known /\ ~Listed(r, t) THEN {}
               ELSE {WithObjs([r EXCEPT !.refs[t] = o], g, Chain(g, o)) :
                        o \in Objs, g \in {x \in Graphs : Agrees(x, r)}})

RevealHead(r) ==
    IF r.head # -1 THEN {r}
    ELSE {[r EXCEPT !.head = 0]}
         \cup {[r EXCEPT !.head = o, !.objs[o] = [type |-> "commit", target |-> 0]] :
                  o \in {x \in Objs : r.objs[x].type \in {"unknown", "commit"}}}

ExistingTags(r) == {t \in TagNames : r.refs[t] > 0}

ApiDate(o) == [local |-> "2023-01-0" \o ToString(o) \o "T00:00:00", zone |-> "Z"]

CommitJson(o) ==
    [sha    |-> Sha(o),
     commit |-> [author |-> [date |-> ApiDate(o)], message |-> "commit " \o ToString(o)],
     author |-> [login |-> "dev" \o ToString(o)]]

GitKind(type) == IF type = "commit" THEN "commits" ELSE IF type = "tag" THEN "tags" ELSE "trees"

ObjUrl(r, o) == repo_url \o "/git/" \o GitKind(r.objs[o].type) \o "/" \o Sha(o)

ObjectJson(r, o) == [type |-> r.objs[o].type, sha |-> Sha(o), url |-> ObjUrl(r, o)]

RefJson(r, t) == [ref |-> "refs/tags/" \o t, object |-> ObjectJson(r, r.refs[t])]

TagObjectJson(r, o) ==
    [sha |-> Sha(o), tag |-> "annotated", object |-> ObjectJson(r, r.objs[o].target)]

TagsJson(r) == [i \in DOMAIN r.tags.list |-> [name |-> r.tags.list[i]]]

branch_commits_url == commits_url \o "?sha=" \o branch

Known(r) == {o \in Objs : r.objs[o] # Unknown}

\* the resource at a URL: [found, json]
Resource(r, url) ==
    IF url = tags_url THEN [found |-> TRUE, json |-> TagsJson(r)]
    ELSE IF url = branch_commits_url
    THEN IF r.head > 0 THEN [found |-> TRUE, json |-> <<CommitJson(r.head)>>]
                       ELSE [found |-> FALSE, json |-> EmptyDict]
    ELSE IF \E t \in ExistingTags(r) : url = tag_ref_url(Str(t))
    THEN [found |-> TRUE,
          json |-> RefJson(r, CHOOSE t \in ExistingTags(r) : url = tag_ref_url(Str(t)))]
    ELSE IF \E o \in Known(r) : url = ObjUrl(r, o)
    THEN LET o == CHOOSE x \in Known(r) : url = ObjUrl(r, x)
         IN  [found |-> TRUE,
              json |-> IF r.objs[o].type = "tag" THEN TagObjectJson(r, o)
                                                 ELSE [sha |-> Sha(o)]]
    ELSE IF \E o \in Known(r) : r.objs[o].type = "commit" /\ url = get_commit_url(Sha(o))
    THEN [found |-> TRUE,
          json |-> CommitJson(CHOOSE o \in Known(r) : url = get_commit_url(Sha(o)))]
    ELSE [found |-> FALSE, json |-> EmptyDict]

\* the remotes after a GET of url: what the lookup reaches is revealed
Reveals(r, url) ==
    IF url = tags_url THEN RevealTags(r)
    ELSE IF url = branch_commits_url THEN RevealHead(r)
    ELSE IF \E t \in TagNames : url = tag_ref_url(Str(t))
    THEN RevealRef(r, CHOOSE t \in TagNames : url = tag_ref_url(Str(t)))
    ELSE {r}

ErrorBody(status) == [message |-> IF status = 404 THEN "Not Found" ELSE "Server Error"]

\* the answers of the remote to a GET, each with the remote it reveals: the
\* resource with status 200, 404 when there is none, or a failure of the server
Answers(r, url) ==
    {[remote |-> r, status |-> 500, json |-> ErrorBody(500)]}
    \cup {IF Resource(r2, url).found
          THEN [remote |-> r2, status |-> 200, json |-> Resource(r2, url).json]
          ELSE [remote |-> r2, status |-> 404, json |-> ErrorBody(404)] :
            r2 \in Reveals(r, url)}

\* search result nodes the remote may return
Nodes ==
    {[number |-> 5,  title |-> "Add feature", author |-> [login |-> "bob"]],
     [number |-> 12, title |-> "Fix bug",     author |-> [login |-> "alice"]],
     [number |-> 5,  title |-> "Add feature (again)", author |-> [login |-> "carol"]],
     [number |-> 7,  title |-> "Orphaned",    author |-> None]}

NodeSeqs == UNION {[1..n -> Nodes] : n \in 0..MaxNodes}

\* the 200 bodies of the search: well-formed, or missing a container
SearchBodies ==
    {[data |-> [search |-> [nodes |-> ns]]] : ns \in NodeSeqs}
    \cup {[data |-> [search |-> [issueCount |-> 0]]],
          [data |-> [rateLimit |-> 0]],
          [errors |-> <<"parse error">>]}

\* the answers of the remote to the search: a body with status 200, or a
\* failure of the server
SearchAnswers ==
    {[status |-> 500, json |-> ErrorBody(500)]}
    \cup {[status |-> 200, json |-> body] : body \in SearchBodies}

-----------------------------------------------------------------------------
(* Requests *)

\* a log entry; `what` is the kind of lookup: "tags", "ref" (a URL built by
\* tag_ref_url), "object" (a URL taken from an answer), "commit", "branch" or
\* "search"
Req(what, url, query, status) ==
    [what |-> what, url |-> url, query |-> query, status |-> status]

\* GithubAPI.api_query, lines 113-118, on the answer to the GET
api_query(request) ==
    IF request.status = 200
    THEN [raise |-> "none", json |-> request.json]
    ELSE [raise |-> "GitHubError", json |-> EmptyDict]

\* GithubAPI.graphql_query, lines 102-107, on the answer to the POST
graphql_query(request) ==
    IF request.status = 200
    THEN [raise |-> "none", json |-> request.json]
    ELSE [raise |-> "GitHubError", json |-> EmptyDict]

locals == <<previous_tag_name, current_tag_name, caller, name, tag_url, tag_json,
            previous_tag, current_commit, prs, lines, changelog>>

\* the exception is swallowed and the run goes on from where it was
Raise_Swallowed(kind) ==
    /\ pc' = pc
    /\ error' = kind
    /\ UNCHANGED locals

\* An exception: nothing in the module catches one, so it ends the run
Raise(kind) ==
    /\ pc' = "error"
    /\ error' = kind
    /\ UNCHANGED locals

-----------------------------------------------------------------------------
(* GithubAPI.get_tag *)

\* the loop stops at the first object it is given, tag objects included
LoopCond_StopsAtTag(tj) ==
    IF "object" \notin DOMAIN tj THEN TRUE ELSE tj.object.type \notin {"commit", "tag"}

\* line 124: the loop condition
LoopCond(tj) == IF "object" \notin DOMAIN tj THEN TRUE ELSE tj.object.type # "commit"

\* lines 128-129: the URL of the next lookup
NextTagUrl(url, tj) == IF tj.object.type = "tag" THEN tj.object.url ELSE url

\* lines 122-123: entry of get_tag(arg), called from `site`
CallGetTag(arg, site) ==
    /\ name' = arg
    /\ tag_url' = tag_ref_url(arg)
    /\ tag_json' = EmptyDict
    /\ caller' = site
    /\ tag_requests' = <<>>
    /\ pc' = "get_tag"

\* lines 124-129: one iteration of the loop
GetTagLoop ==
    /\ pc = "get_tag"
    /\ LoopCond(tag_json)
    /\ Len(log) < MaxRequests
    /\ \E request \in Answers(remote, tag_url) :
        LET r == api_query(request)
        IN  /\ remote' = request.remote
            /\ log' = Append(log, Req(IF tag_url = tag_ref_url(name) THEN "ref" ELSE "object",
                                             tag_url, "", request.status))
            /\ tag_requests' = Append(tag_requests, tag_url)
            /\ IF r.raise # "none" THEN Raise(r.raise)
               ELSE IF "object" \notin DOMAIN r.json THEN Raise("KeyError")
               ELSE /\ tag_json' = r.json
                    /\ tag_url' = NextTagUrl(tag_url, r.json)
                    /\ pc' = IF LoopCond(r.json) THEN "get_tag" ELSE "get_tag_commit"
                    /\ UNCHANGED <<error, previous_tag_name, current_tag_name, caller,
                                   name, previous_tag, current_commit, prs, lines,
                                   changelog>>
    /\ UNCHANGED <<pr_json_list, previous_arg>>

\* lines 131-132 and the return into the caller: get_latest_tag (146) returns
\* the Tag to fetch_changes line 212, which passes it on to get_tag (213);
\* line 213 stores the Tag and goes on to lines 215-219; line 216-217 takes
\* the Tag's commit and goes on to line 221
GetTagCommit ==
    /\ pc = "get_tag_commit"
    /\ Len(log) < MaxRequests
    /\ LET url == get_commit_url(tag_json.object.sha)
       IN \E request \in Answers(remote, url) :
        LET r == api_query(request)
            tag == Tag(name, init_from_api(r.json))
        IN  /\ remote' = request.remote
            /\ log' = Append(log, Req("commit", url, "", request.status))
            /\ IF r.raise # "none"
               THEN Raise(r.raise) /\ UNCHANGED tag_requests
               ELSE /\ UNCHANGED <<error, current_tag_name, prs, lines, changelog>>
                    /\ CASE caller = "get_latest_tag" ->
                              /\ previous_tag_name' = tag
                              /\ CallGetTag(tag, "previous")
                              /\ UNCHANGED <<previous_tag, current_commit>>
                         [] caller = "previous" ->
                              /\ previous_tag' = tag
                              /\ IF current_tag_name.type # "None"
                                 THEN CallGetTag(current_tag_name, "current")
                                 ELSE /\ pc' = "get_last_commit"
                                      /\ UNCHANGED <<name, tag_url, tag_json, caller,
                                                     tag_requests>>
                              /\ UNCHANGED <<previous_tag_name, current_commit>>
                         [] caller = "current" ->
                              /\ current_commit' = tag.commit
                              /\ pc' = "get_prs_merged_between_commits"
                              /\ UNCHANGED <<previous_tag_name, previous_tag, name,
                                             tag_url, tag_json, caller, tag_requests>>
    /\ UNCHANGED <<pr_json_list, previous_arg>>

-----------------------------------------------------------------------------
(* fetch_changes *)

\* lines 211-213: the previous tag is the one given, or else the latest
FetchChanges ==
    /\ pc = "fetch_changes"
    /\ IF previous_tag_name.type = "None"
       THEN /\ pc' = "get_latest_tag"
            /\ UNCHANGED <<name, tag_url, tag_json, caller, tag_requests>>
       ELSE CallGetTag(previous_tag_name, "previous")
    /\ UNCHANGED <<remote, error, previous_tag_name, current_tag_name, previous_tag,
                   current_commit, pr_json_list, prs, lines, changelog, log,
                   previous_arg>>

\* GithubAPI.get_latest_tag, lines 144-146
GetLatestTag ==
    /\ pc = "get_latest_tag"
    /\ Len(log) < MaxRequests
    /\ \E request \in Answers(remote, tags_url) :
        LET r == api_query(request)
            tags_json == r.json
        IN  /\ remote' = request.remote
            /\ log' = Append(log, Req("tags", tags_url, "", request.status))
            /\ IF r.raise # "none" THEN Raise(r.raise) /\ UNCHANGED tag_requests
               ELSE IF Len(tags_json) = 0 THEN Raise("IndexError") /\ UNCHANGED tag_requests
               ELSE /\ CallGetTag(Str(tags_json[1].name), "get_latest_tag")
                    /\ UNCHANGED <<error, previous_tag_name, current_tag_name,
                                   previous_tag, current_commit, prs, lines,
                                   changelog>>
    /\ UNCHANGED <<pr_json_list, previous_arg>>

\* GithubAPI.get_last_commit, lines 136-140, and fetch_changes line 219
GetLastCommit ==
    /\ pc = "get_last_commit"
    /\ Len(log) < MaxRequests
    /\ \E request \in Answers(remote, branch_commits_url) :
        LET r == api_query(request)
            commits_json == r.json
        IN  /\ remote' = request.remote
            /\ log' = Append(log, Req("branch", branch_commits_url, "", request.status))
            /\ IF r.raise # "none" THEN Raise(r.raise)
               ELSE IF Len(commits_json) = 0 THEN Raise("IndexError")
               ELSE /\ current_commit' = init_from_api(commits_json[1])
                    /\ pc' = "get_prs_merged_between_commits"
                    /\ UNCHANGED <<error, previous_tag_name, current_tag_name, caller,
                                   name, tag_url, tag_json, previous_tag, prs, lines,
                                   changelog>>
    /\ UNCHANGED <<pr_json_list, tag_requests, previous_arg>>

-----------------------------------------------------------------------------
(* GithubAPI.get_prs_merged_between_commits *)

\* insertion of x behind the entries whose number is not larger (s is sorted)
InsertByNumber(x, s) ==
    LET k == Cardinality({i \in DOMAIN s : s[i].number <= x.number})
    IN  SubSeq(s, 1, k) \o <<x>> \o SubSeq(s, k + 1, Len(s))

\* the list is returned in the order of the response
sorted_Unsorted(list) == list

\* sorted(list, key=attrgetter("number")): ascending and stable
RECURSIVE sorted(_)
sorted(list) ==
    IF list = <<>> THEN <<>>
    ELSE InsertByNumber(list[Len(list)], sorted(SubSeq(list, 1, Len(list) - 1)))

\* lines 166-168: the search string
merged_query(first_commit, last_commit) ==
    "repo:" \o owner \o "/" \o repo \o " is:pr is:merged created:"
    \o isoformat(first_commit.datetime) \o ".." \o isoformat(last_commit.datetime)

\* line 191: pr_json_list["data"]["search"].get("nodes", [])
NodesOf(json) == IF "nodes" \in DOMAIN json.data.search THEN json.data.search.nodes ELSE <<>>

\* lines 187-192: the list comprehension
PullRequestsOf(nodes) ==
    [i \in DOMAIN nodes |->
        PullRequest(nodes[i].number, nodes[i].title, nodes[i].author.login)]

\* lines 166-194, called from fetch_changes line 221; fetch_changes returns the
\* list to generate_changelog line 255
GetPrsMergedBetweenCommits ==
    /\ pc = "get_prs_merged_between_commits"
    /\ Len(log) < MaxRequests
    /\ \E request \in SearchAnswers :
        LET r == graphql_query(request)
            query == merged_query(previous_tag.commit, current_commit)
        IN  /\ log' = Append(log, Req("search", graphql_url, query, request.status))
            /\ pr_json_list' = r.json
            /\ IF r.raise # "none" THEN Raise(r.raise)
               ELSE IF "data" \notin DOMAIN r.json THEN Raise("KeyError")
               ELSE IF "search" \notin DOMAIN r.json.data THEN Raise("KeyError")
               ELSE IF \E i \in DOMAIN NodesOf(r.json) :
                          "login" \notin DOMAIN NodesOf(r.json)[i].author
               THEN Raise("TypeError")
               ELSE /\ prs' = sorted(PullRequestsOf(NodesOf(r.json)))
                    /\ pc' = "format_changes"
                    /\ UNCHANGED <<error, previous_tag_name, current_tag_name, caller,
                                   name, tag_url, tag_json, previous_tag, current_commit,
                                   lines, changelog>>
    /\ UNCHANGED <<remote, tag_requests, previous_arg>>

-----------------------------------------------------------------------------
(* format_changes and generate_changelog *)

\* a TLA+ string cannot hold the backquote of the bullet template; it is
\* written as an apostrophe
Backquote == "'"

\* line 233
BulletLine(pr) ==
    "- " \o Backquote \o "#" \o ToString(pr.number) \o Backquote \o "_ " \o pr.title
    \o " (@" \o pr.author \o ")"

\* line 234
UrlLine(b, o, r, pr) ==
    ".. _#" \o ToString(pr.number) \o ": " \o b \o "/" \o o \o "/" \o r
    \o "/pull/" \o ToString(pr.number)

\* each bullet is followed by its own link target
format_changes_Interleaved(b, o, r, p) ==
    [i \in 1..(2 * Len(p)) |->
        IF i % 2 = 1 THEN BulletLine(p[(i + 1) \div 2]) ELSE UrlLine(b, o, r, p[i \div 2])]

\* format_changes(base_url, owner, repo, prs)
format_changes(b, o, r, p) ==
    LET bullet_list == [i \in DOMAIN p |-> BulletLine(p[i])]
        url_list    == [i \in DOMAIN p |-> UrlLine(b, o, r, p[i])]
    IN  bullet_list \o url_list

\* str.join
RECURSIVE join(_, _)
join(separator, ls) ==
    IF ls = <<>> THEN ""
    ELSE IF Len(ls) = 1 THEN ls[1]
    ELSE ls[1] \o separator \o join(separator, Tail(ls))

\* line 260
Separator(single_line) == IF single_line THEN "\\n" ELSE "\n"

\* generate_changelog line 258
FormatChanges ==
    /\ pc = "format_changes"
    /\ lines' = format_changes(base_url, owner, repo, prs)
    /\ pc' = "join"
    /\ UNCHANGED <<remote, error, previous_tag_name, current_tag_name, caller, name,
                   tag_url, tag_json, previous_tag, current_commit, pr_json_list, prs,
                   changelog, log, tag_requests, previous_arg>>

\* generate_changelog lines 260-261
Join ==
    /\ pc = "join"
    /\ \E single_line \in BOOLEAN :
        changelog' = [produced |-> TRUE, text |-> join(Separator(single_line), lines)]
    /\ pc' = "done"
    /\ UNCHANGED <<remote, error, previous_tag_name, current_tag_name, caller, name,
                   tag_url, tag_json, previous_tag, current_commit, pr_json_list, prs,
                   lines, log, tag_requests, previous_arg>>

-----------------------------------------------------------------------------
(* The run *)

TagArgs == {None} \cup {Str(t) : t \in TagNames}

\* generate_changelog lines 249-255: the state on entry to fetch_changes
Init ==
    /\ remote = FreshRemote
    /\ previous_tag_name \in TagArgs
    /\ previous_arg = previous_tag_name
    /\ current_tag_name \in TagArgs
    /\ pc = "fetch_changes"
    /\ error = "none"
    /\ caller = "none"
    /\ name = None
    /\ tag_url = ""
    /\ tag_json = EmptyDict
    /\ previous_tag = None
    /\ current_commit = None
    /\ pr_json_list = EmptyDict
    /\ prs = <<>>
    /\ lines = <<>>
    /\ changelog = [produced |-> FALSE, text |-> ""]
    /\ log = <<>>
    /\ tag_requests = <<>>

Next ==
    \/ FetchChanges
    \/ GetLatestTag
    \/ GetTagLoop
    \/ GetTagCommit
    \/ GetLastCommit
    \/ GetPrsMergedBetweenCommits
    \/ FormatChanges
    \/ Join

Spec == Init /\ [][Next]_vars

-----------------------------------------------------------------------------
(* Properties *)

Finished == pc \in {"done", "error"}

\* get_prs_merged_between_commits has returned its list
Returned == pc \in {"format_changes", "join", "done"}

\* the search has been answered with status 200
SearchAnswered == log # <<>> /\ log[Len(log)].what = "search" /\ log[Len(log)].status = 200

\* the 200 body of the search lacks data, search or nodes
Malformed(json) ==
    IF "data" \notin DOMAIN json THEN TRUE
    ELSE IF "search" \notin DOMAIN json.data THEN TRUE
    ELSE "nodes" \notin DOMAIN json.data.search

\* the tag objects from o on, and the object they end at
RECURSIVE TagChain(_, _)
TagChain(r, o) ==
    IF r.objs[o].type = "tag" THEN <<o>> \o TagChain(r, r.objs[o].target) ELSE <<>>

RECURSIVE Deref(_, _)
Deref(r, o) == IF r.objs[o].type = "tag" THEN Deref(r, r.objs[o].target) ELSE o

\* the names of the tags the remote is known to have
ExistingNames == {t \in TagNames : remote.refs[t] > 0 \/ Listed(remote, t)}

IsCommitSha(sha) == \E o \in Objs : remote.objs[o].type = "commit" /\ sha = Sha(o)

\* C1: the list get_prs_merged_between_commits returns is ascending by number
\* and holds exactly the PRs of the nodes of the response, each as often as
\* the response holds it.
C1_SortedAndComplete ==
    Returned =>
        LET nodes == NodesOf(pr_json_list)
        IN  /\ \A i \in 1..(Len(prs) - 1) : prs[i].number <= prs[i + 1].number
            /\ Len(prs) = Len(nodes)
            /\ \A k \in DOMAIN nodes :
                 Cardinality({i \in DOMAIN prs :
                     /\ prs[i].number = nodes[k].number
                     /\ prs[i].title = nodes[k].title
                     /\ prs[i].author = nodes[k].author.login})
                 = Cardinality({j \in DOMAIN nodes : nodes[j] = nodes[k]})

C1_Witness ==
    /\ Returned
    /\ Len(NodesOf(pr_json_list)) >= 2
    /\ NodesOf(pr_json_list)[1].number > NodesOf(pr_json_list)[2].number

\* C2: get_tag never looks up the commit of an annotated-tag object: once its
\* loop is left, it has requested the reference and then the URL of every
\* annotated-tag object on the way, the object it holds is the commit the
\* chain ends at, no commit lookup is addressed by the sha of a tag object,
\* and the commit of a Tag it returned is a commit object.
C2_DereferencesAnnotatedTag ==
    /\ \A i \in DOMAIN log : log[i].what = "commit" =>
          \A o \in Objs : remote.objs[o].type = "tag" => log[i].url # get_commit_url(Sha(o))
    /\ pc = "get_tag_commit" =>
          LET o == remote.refs[name.val]
              chain == TagChain(remote, o)
          IN  /\ tag_requests = <<tag_ref_url(name)>> \o [i \in DOMAIN chain |-> ObjUrl(remote, chain[i])]
              /\ tag_json.object.sha = Sha(Deref(remote, o))
              /\ IsCommitSha(tag_json.object.sha)
    /\ previous_tag.type = "Tag" => IsCommitSha(previous_tag.commit.sha)
    /\ "sha" \in DOMAIN current_commit => IsCommitSha(current_commit.sha)

C2_Witness ==
    /\ previous_tag.type = "Tag"
    /\ previous_tag.name.type = "str"
    /\ remote.objs[remote.refs[previous_tag.name.val]].type = "tag"

\* C3 (as claimed): with no previous tag name given, on a remote with at least
\* one tag that answers 200 to every lookup of something that exists, the run
\* reaches the search with the commit of the first listed tag as first_commit,
\* and every reference lookup is addressed by the name of an existing tag.
C3_LatestTagIsLowerEndpoint ==
    ( /\ previous_arg.type = "None"
      /\ Finished
      /\ remote.tags.known /\ Len(remote.tags.list) > 0
      /\ current_tag_name.type = "str" => current_tag_name.val \in ExistingNames
      /\ \A i \in DOMAIN log : log[i].status # 200 =>
            /\ log[i].what = "ref"
            /\ \A t \in ExistingNames : log[i].url # tag_ref_url(Str(t)) )
    => ( /\ \E i \in DOMAIN log : log[i].what = "search"
         /\ previous_tag.type = "Tag"
         /\ previous_tag.commit.sha = Sha(Deref(remote, remote.refs[remote.tags.list[1]]))
         /\ \A i \in DOMAIN log : log[i].what = "ref" =>
               \E t \in ExistingNames : log[i].url = tag_ref_url(Str(t)) )

HasFailed(l) == \E i \in DOMAIN l : l[i].status # 200

\* C4: the step in which a request is answered with a status other than 200
\* ends the run in GitHubError with no changelog produced, and no step is
\* taken after it: no further request, no retry, no output.
C4_FirstFailureIsFatal ==
    [][ /\ ~HasFailed(log)
        /\ HasFailed(log') =>
              /\ pc' = "error"
              /\ error' = "GitHubError"
              /\ ~changelog'.produced
              /\ Len(log') = Len(log) + 1 ]_vars

C4_Witness ==
    /\ HasFailed(log)
    /\ Len(log) >= 3
    /\ pc = "error"
    /\ ~changelog.produced

\* C5 (as claimed): when the search is answered (here: with status 200 and a
\* well-formed body) for a range whose two commits are the same commit, the
\* list returned is empty and the run is in no error.
C5_SameCommitIsEmpty ==
    ( /\ SearchAnswered
      /\ ~Malformed(pr_json_list)
      /\ \A i \in DOMAIN NodesOf(pr_json_list) :
            "login" \in DOMAIN NodesOf(pr_json_list)[i].author
      /\ previous_tag.commit.sha = current_commit.sha )
    => (pc # "error" /\ prs = <<>>)

\* C6 (as claimed): with no previous tag name given and an empty tag list
\* answered with status 200, the run ends in GitHubError after that one request.
C6_NoTagsIsGitHubError ==
    ( /\ previous_arg.type = "None"
      /\ log # <<>> /\ log[1].what = "tags" /\ log[1].status = 200
      /\ remote.tags.list = <<>> )
    => (pc = "error" /\ error = "GitHubError" /\ Len(log) = 1)

\* C7 (as claimed): a 200 search answer without its result container ends in
\* GitHubError and is never turned into a returned list.
C7_MalformedIsGitHubError ==
    (SearchAnswered /\ Malformed(pr_json_list)) => (pc = "error" /\ error = "GitHubError")

\* C8 (as claimed): no two entries of the returned list have the same number.
C8_Deduplicated ==
    Returned => \A i, j \in DOMAIN prs : prs[i].number = prs[j].number => i = j

\* C9: format_changes returns 2n lines for n PRs, the bullet lines in input
\* order followed by the link-target lines in input order; for no PRs it
\* returns nothing and the joined changelog is the empty string.
C9_TwoAlignedBlocks ==
    /\ pc \in {"join", "done"} =>
          /\ Len(lines) = 2 * Len(prs)
          /\ \A i \in DOMAIN prs :
                /\ lines[i] = BulletLine(prs[i])
                /\ lines[Len(prs) + i] = UrlLine(base_url, owner, repo, prs[i])
    /\ (pc = "done" /\ prs = <<>>) => (lines = <<>> /\ changelog.text = "")

C9_Witness ==
    /\ pc = "done"
    /\ Len(prs) >= 2
    /\ prs[1].number # prs[2].number

\* C10 (as claimed): on a remote that answers every lookup with status 200,
\* one call of get_tag never requests the same URL twice, whatever the type
\* of the object the reference points at.
C10_NoUrlRequestedTwice ==
    ~HasFailed(log) =>
        \A i, j \in DOMAIN tag_requests : tag_requests[i] = tag_requests[j] => i = j

====
